---- MODULE Spec2Model ----
(***************************************************************************)
(* A model of the entry points and normalization utilities of              *)
(* music-metadata (src/src/index.ts): parseFile, parseStream, parseBuffer, *)
(* orderTags, joinArtists and ratingToStars.                               *)
(*                                                                         *)
(* Promises are modelled by their settlement: one action per callback that *)
(* runs when a promise fulfils or rejects.  The collaborators (strtok3,    *)
(* ParserFactory, the parser, MetadataCollector) are the environment: each *)
(* of their outcomes is a nondeterministic choice.                         *)
(***************************************************************************)
EXTENDS Integers, Sequences, FiniteSets, TLC

VARIABLES
    \* ---- parseFile ----
    callNo,            \* number of the parseFile call being modelled
    filePath,          \* argument filePath, a sequence of characters
    parserId,          \* what ParserFactory.getParserIdForExtension(filePath) yields
    pc,                \* the promise the call is waiting for
    fileTokenizer,     \* "none" | "open" | "closed"
    closeCalls,        \* invocations of fileTokenizer.close() in this call
    closeOutcomes,     \* the settlement of each settled close(), in order
    parseState,        \* "idle" | "pending" | "fulfilled" | "rejected"
    parseError,        \* the error parse() rejected with
    err,               \* the catch handler's parameter err
    metadata,          \* identity of this call's MetadataCollector, 0 = none
    collectorsCreated, \* MetadataCollector objects constructed so far, all calls
    initArgs,          \* arguments init received: <<collector, tokenizer>>
    commonOf,          \* collectors toCommonMetadata() was called on, in order
    commonValue,       \* what toCommonMetadata() returned
    log,               \* calls and settlements of this call, in order
    outcome,           \* the promise parseFile returned
    \* ---- parseStream / parseBuffer ----
    entry,             \* "parseStream" | "parseBuffer"
    sizePc,            \* "start" | "fromStream" | "ParserFactory.parse" | "rejected"
    acquiredSize,      \* tokenizer.fileSize as strtok3 delivered it
    tokenizerSize,     \* tokenizer.fileSize now
    optFileSize,       \* options.fileSize
    mimeType,          \* argument mimeType
    factoryArgs,       \* arguments ParserFactory.parse received
    \* ---- orderTags ----
    nativeTags,        \* argument nativeTags
    tagIndex,          \* tags of nativeTags the loop has consumed
    tags,              \* own properties of the object tags
    tagsPc,            \* "loop" | "returned" | "threw"
    \* ---- joinArtists ----
    artists,           \* argument artists
    joinPc,            \* "call" | "returned"
    joined,            \* the string returned
    \* ---- ratingToStars ----
    rating,            \* argument rating: {} when undefined, {<<num, den>>} for num/den
    starsPc,           \* "call" | "returned"
    stars              \* the number returned

fileVars == <<callNo, filePath, parserId, pc, fileTokenizer, closeCalls, closeOutcomes,
              parseState, parseError, err, metadata, collectorsCreated, initArgs,
              commonOf, commonValue, log, outcome>>
sizeVars == <<entry, sizePc, acquiredSize, tokenizerSize, optFileSize, mimeType, factoryArgs>>
tagVars == <<nativeTags, tagIndex, tags, tagsPc>>
joinVars == <<artists, joinPc, joined>>
starVars == <<rating, starsPc, stars>>
vars == <<fileVars, sizeVars, tagVars, joinVars, starVars>>
notFile == <<sizeVars, tagVars, joinVars, starVars>>
notSize == <<fileVars, tagVars, joinVars, starVars>>
notTags == <<fileVars, sizeVars, joinVars, starVars>>
notJoin == <<fileVars, sizeVars, tagVars, starVars>>
notStars == <<fileVars, sizeVars, tagVars, joinVars>>

(***************************************************************************)
(* Bounds of the model.                                                    *)
(***************************************************************************)
MaxCalls == 2
MaxSize == 3
MaxTags == 3
MaxArtists == 4
MaxNum == 10
MaxDen == 8

(***************************************************************************)
(* Errors are Error objects, told apart by their message.                  *)
(***************************************************************************)
Error(message) == [message |-> message]
NoError == Error(<<>>)
OpenErrors == {Error(<<"ENOENT">>)}
LoadErrors == {Error(<<"load failed">>)}
InitErrors == {Error(<<"init failed">>)}
ParseErrors == {Error(<<"E1">>), Error(<<"E2">>)}
CloseErrors == {Error(<<"C1">>), Error(<<"C2">>)}
CommonErrors == {Error(<<"toCommonMetadata failed">>)}
CommonValues == {"common1", "common2"}
Undefined == "undefined"
UnsupportedPrefix == "No parser found for extension: "
ParserIds == {"mpeg"}
FilePaths == {<<"t", ".", "m">>, <<"t", ".", "x">>, <<"t">>, <<".", "x">>, <<"t", ".", "x", ".", "m">>}

\* path.extname: from the last "." of the name to its end; empty when there is
\* no "." or the only one is the first character.
extname(p) ==
    LET dots == {i \in 1..Len(p) : p[i] = "."}
        last == CHOOSE i \in dots : \A j \in dots : j <= i
    IN  IF dots = {} \/ last = 1 THEN <<>> ELSE SubSeq(p, last, Len(p))

Pending == [state |-> "pending", value |-> "", reason |-> NoError]
Fulfilled(v) == [state |-> "fulfilled", value |-> v, reason |-> NoError]
Rejected(e) == [state |-> "rejected", value |-> "", reason |-> e]

(***************************************************************************)
(* parseFile (src/src/index.ts:454-474)                                    *)
(***************************************************************************)
\* State at the call of parseFile: strtok3.fromFile(filePath) is pending.
CallParseFile(n, p, id) ==
    /\ callNo' = n
    /\ filePath' = p
    /\ parserId' = id
    /\ pc' = "fromFile"
    /\ fileTokenizer' = "none"
    /\ closeCalls' = 0
    /\ closeOutcomes' = <<>>
    /\ parseState' = "idle"
    /\ parseError' = NoError
    /\ err' = NoError
    /\ metadata' = 0
    /\ initArgs' = <<>>
    /\ commonOf' = <<>>
    /\ commonValue' = ""
    /\ log' = <<"fromFile">>
    /\ outcome' = Pending

FileInit ==
    /\ callNo = 1
    /\ filePath \in FilePaths
    /\ parserId \in ParserIds \cup {Undefined}
    /\ pc = "fromFile"
    /\ fileTokenizer = "none"
    /\ closeCalls = 0
    /\ closeOutcomes = <<>>
    /\ parseState = "idle"
    /\ parseError = NoError
    /\ err = NoError
    /\ metadata = 0
    /\ collectorsCreated = 0
    /\ initArgs = <<>>
    /\ commonOf = <<>>
    /\ commonValue = ""
    /\ log = <<"fromFile">>
    /\ outcome = Pending

\* Line 455: strtok3.fromFile rejects: no callback of parseFile runs.
FromFileRejected ==
    /\ pc = "fromFile"
    /\ \E e \in OpenErrors : outcome' = Rejected(e)
    /\ log' = Append(log, "fromFile rejected")
    /\ pc' = "done"
    /\ UNCHANGED <<callNo, filePath, parserId, fileTokenizer, closeCalls, closeOutcomes,
                   parseState, parseError, err, metadata, collectorsCreated, initArgs,
                   commonOf, commonValue>>
    /\ UNCHANGED notFile

\* Lines 455-458: fromFile fulfils with fileTokenizer, parserName is truthy,
\* ParserFactory.loadParser is called.
FromFileFulfilledParserFound ==
    /\ pc = "fromFile"
    /\ parserId # Undefined
    /\ fileTokenizer' = "open"
    /\ log' = log \o <<"fromFile fulfilled", "loadParser">>
    /\ pc' = "loadParser"
    /\ UNCHANGED <<callNo, filePath, parserId, closeCalls, closeOutcomes, parseState,
                   parseError, err, metadata, collectorsCreated, initArgs, commonOf,
                   commonValue, outcome>>
    /\ UNCHANGED notFile

\* Lines 455-457, 470-472: fromFile fulfils with fileTokenizer, parserName is
\* falsy, the callback throws.
FromFileFulfilledNoParser ==
    /\ pc = "fromFile"
    /\ parserId = Undefined
    /\ fileTokenizer' = "open"
    /\ log' = Append(log, "fromFile fulfilled")
    /\ outcome' = Rejected(Error(<<UnsupportedPrefix>> \o extname(filePath)))
    /\ pc' = "done"
    /\ UNCHANGED <<callNo, filePath, parserId, closeCalls, closeOutcomes, parseState,
                   parseError, err, metadata, collectorsCreated, initArgs, commonOf,
                   commonValue>>
    /\ UNCHANGED notFile

\* Line 458: loadParser rejects: the rejection passes through to the returned promise.
LoadParserRejected ==
    /\ pc = "loadParser"
    /\ \E e \in LoadErrors : outcome' = Rejected(e)
    /\ log' = Append(log, "loadParser rejected")
    /\ pc' = "done"
    /\ UNCHANGED <<callNo, filePath, parserId, fileTokenizer, closeCalls, closeOutcomes,
                   parseState, parseError, err, metadata, collectorsCreated, initArgs,
                   commonOf, commonValue>>
    /\ UNCHANGED notFile

\* Lines 458-460: loadParser fulfils, the collector is constructed, init
\* returns the parser and parse() is called.
LoadParserFulfilled ==
    /\ pc = "loadParser"
    /\ collectorsCreated' = collectorsCreated + 1
    /\ metadata' = collectorsCreated + 1
    /\ initArgs' = <<collectorsCreated + 1, fileTokenizer>>
    /\ parseState' = "pending"
    /\ log' = log \o <<"loadParser fulfilled", "new MetadataCollector", "init", "parse">>
    /\ pc' = "parse"
    /\ UNCHANGED <<callNo, filePath, parserId, fileTokenizer, closeCalls, closeOutcomes,
                   parseError, err, commonOf, commonValue, outcome>>
    /\ UNCHANGED notFile

\* Lines 458-460: loadParser fulfils, the collector is constructed, init
\* throws inside the callback, outside the reach of the catch of line 464.
LoadParserFulfilledInitThrows ==
    /\ pc = "loadParser"
    /\ collectorsCreated' = collectorsCreated + 1
    /\ metadata' = collectorsCreated + 1
    /\ initArgs' = <<collectorsCreated + 1, fileTokenizer>>
    /\ \E e \in InitErrors : outcome' = Rejected(e)
    /\ log' = log \o <<"loadParser fulfilled", "new MetadataCollector", "init", "init threw">>
    /\ pc' = "done"
    /\ UNCHANGED <<callNo, filePath, parserId, fileTokenizer, closeCalls, closeOutcomes,
                   parseState, parseError, err, commonOf, commonValue>>
    /\ UNCHANGED notFile

\* ParseFulfilled with the two calls of lines 461 and 462 exchanged:
\* toCommonMetadata() is called before close().
ParseFulfilledCommonFirst ==
    /\ pc = "parse"
    /\ parseState' = "fulfilled"
    /\ commonOf' = Append(commonOf, metadata)
    /\ closeCalls' = closeCalls + 1
    /\ log' = log \o <<"parse fulfilled", "toCommonMetadata", "close">>
    /\ pc' = "close"
    /\ UNCHANGED <<callNo, filePath, parserId, fileTokenizer, closeOutcomes, parseError,
                   err, metadata, collectorsCreated, initArgs, commonValue, outcome>>
    /\ UNCHANGED notFile

\* Lines 460-461: parse() fulfils, the then callback calls close().
ParseFulfilled ==
    /\ pc = "parse"
    /\ parseState' = "fulfilled"
    /\ closeCalls' = closeCalls + 1
    /\ log' = log \o <<"parse fulfilled", "close">>
    /\ pc' = "close"
    /\ UNCHANGED <<callNo, filePath, parserId, fileTokenizer, closeOutcomes, parseError,
                   err, metadata, collectorsCreated, initArgs, commonOf, commonValue,
                   outcome>>
    /\ UNCHANGED notFile

\* Lines 464-465: the catch callback takes err and calls close().
CatchHandler(e, events) ==
    /\ err' = e
    /\ closeCalls' = closeCalls + 1
    /\ log' = log \o events \o <<"close">>
    /\ pc' = "catch close"

\* ParseRejected without the catch callback of lines 464-468: the rejection
\* of parse() reaches the caller and close() is never called.
ParseRejectedNoClose ==
    /\ pc = "parse"
    /\ \E e \in ParseErrors :
        /\ parseState' = "rejected"
        /\ parseError' = e
        /\ outcome' = Rejected(e)
    /\ log' = Append(log, "parse rejected")
    /\ pc' = "done"
    /\ UNCHANGED <<callNo, filePath, parserId, fileTokenizer, closeCalls, closeOutcomes,
                   err, metadata, collectorsCreated, initArgs, commonOf, commonValue>>
    /\ UNCHANGED notFile

\* Lines 460, 464-465: parse() rejects, the then callback is skipped and the
\* catch callback runs.
ParseRejected ==
    /\ pc = "parse"
    /\ \E e \in ParseErrors :
        /\ parseState' = "rejected"
        /\ parseError' = e
        /\ CatchHandler(e, <<"parse rejected">>)
    /\ UNCHANGED <<callNo, filePath, parserId, fileTokenizer, closeOutcomes, metadata,
                   collectorsCreated, initArgs, commonOf, commonValue, outcome>>
    /\ UNCHANGED notFile

\* Lines 461-462: the close() of the then callback fulfils and
\* toCommonMetadata() returns: the returned promise fulfils with its value.
CloseFulfilled ==
    /\ pc = "close"
    /\ fileTokenizer' = "closed"
    /\ closeOutcomes' = Append(closeOutcomes, Fulfilled(""))
    /\ commonOf' = Append(commonOf, metadata)
    /\ \E v \in CommonValues :
        /\ commonValue' = v
        /\ outcome' = Fulfilled(v)
    /\ log' = log \o <<"close fulfilled", "toCommonMetadata">>
    /\ pc' = "done"
    /\ UNCHANGED <<callNo, filePath, parserId, closeCalls, parseState, parseError, err,
                   metadata, collectorsCreated, initArgs>>
    /\ UNCHANGED notFile

\* Lines 461-465: the close() of the then callback fulfils, toCommonMetadata()
\* throws, and the catch callback of line 464 runs on that error.
CloseFulfilledCommonThrows ==
    /\ pc = "close"
    /\ fileTokenizer' = "closed"
    /\ closeOutcomes' = Append(closeOutcomes, Fulfilled(""))
    /\ commonOf' = Append(commonOf, metadata)
    /\ \E e \in CommonErrors :
        CatchHandler(e, <<"close fulfilled", "toCommonMetadata", "toCommonMetadata threw">>)
    /\ UNCHANGED <<callNo, filePath, parserId, parseState, parseError, metadata,
                   collectorsCreated, initArgs, commonValue, outcome>>
    /\ UNCHANGED notFile

\* Lines 461, 464-465: the close() of the then callback rejects, and the catch
\* callback of line 464 runs on that error.
CloseRejected ==
    /\ pc = "close"
    /\ \E e \in CloseErrors :
        /\ closeOutcomes' = Append(closeOutcomes, Rejected(e))
        /\ CatchHandler(e, <<"close rejected">>)
    /\ UNCHANGED <<callNo, filePath, parserId, fileTokenizer, parseState, parseError,
                   metadata, collectorsCreated, initArgs, commonOf, commonValue, outcome>>
    /\ UNCHANGED notFile

\* CatchCloseFulfilled with "return err" for the "throw err" of line 466: the
\* returned promise fulfils.
CatchCloseFulfilledSwallows ==
    /\ pc = "catch close"
    /\ fileTokenizer' = "closed"
    /\ closeOutcomes' = Append(closeOutcomes, Fulfilled(""))
    /\ outcome' = Fulfilled("err")
    /\ log' = Append(log, "close fulfilled")
    /\ pc' = "done"
    /\ UNCHANGED <<callNo, filePath, parserId, closeCalls, parseState, parseError, err,
                   metadata, collectorsCreated, initArgs, commonOf, commonValue>>
    /\ UNCHANGED notFile

\* Lines 465-467: the close() of the catch callback fulfils, err is rethrown.
CatchCloseFulfilled ==
    /\ pc = "catch close"
    /\ fileTokenizer' = "closed"
    /\ closeOutcomes' = Append(closeOutcomes, Fulfilled(""))
    /\ outcome' = Rejected(err)
    /\ log' = Append(log, "close fulfilled")
    /\ pc' = "done"
    /\ UNCHANGED <<callNo, filePath, parserId, closeCalls, parseState, parseError, err,
                   metadata, collectorsCreated, initArgs, commonOf, commonValue>>
    /\ UNCHANGED notFile

\* Line 465: the close() of the catch callback rejects, its error replaces err.
CatchCloseRejected ==
    /\ pc = "catch close"
    /\ \E e \in CloseErrors :
        /\ closeOutcomes' = Append(closeOutcomes, Rejected(e))
        /\ outcome' = Rejected(e)
    /\ log' = Append(log, "close rejected")
    /\ pc' = "done"
    /\ UNCHANGED <<callNo, filePath, parserId, fileTokenizer, closeCalls, parseState,
                   parseError, err, metadata, collectorsCreated, initArgs, commonOf,
                   commonValue>>
    /\ UNCHANGED notFile

\* The caller calls parseFile again once the previous promise has settled.
NextCall ==
    /\ pc = "done"
    /\ callNo < MaxCalls
    /\ \E p \in FilePaths, id \in ParserIds \cup {Undefined} : CallParseFile(callNo + 1, p, id)
    /\ UNCHANGED collectorsCreated
    /\ UNCHANGED notFile

FileIdle ==
    /\ callNo = 0
    /\ filePath = <<>>
    /\ parserId = Undefined
    /\ pc = "idle"
    /\ fileTokenizer = "none"
    /\ closeCalls = 0
    /\ closeOutcomes = <<>>
    /\ parseState = "idle"
    /\ parseError = NoError
    /\ err = NoError
    /\ metadata = 0
    /\ collectorsCreated = 0
    /\ initArgs = <<>>
    /\ commonOf = <<>>
    /\ commonValue = ""
    /\ log = <<>>
    /\ outcome = Pending

FileNext ==
    \/ FromFileRejected
    \/ FromFileFulfilledParserFound
    \/ FromFileFulfilledNoParser
    \/ LoadParserRejected
    \/ LoadParserFulfilled
    \/ LoadParserFulfilledInitThrows
    \/ ParseFulfilled
    \/ ParseRejected
    \/ CloseFulfilled
    \/ CloseFulfilledCommonThrows
    \/ CloseRejected
    \/ CatchCloseFulfilled
    \/ CatchCloseRejected
    \/ NextCall

(***************************************************************************)
(* parseStream (src/src/index.ts:483-490) and parseBuffer (499-505)        *)
(***************************************************************************)
\* An optional number: {} when undefined, {n} for the number n.
None == {}
Some(n) == {n}
OptSizes == {None} \cup {Some(n) : n \in 0..MaxSize}
MimeTypes == {Undefined, "audio/mpeg"}

\* JavaScript's ToBoolean of an optional number: undefined and 0 are falsy.
Truthy(x) == x # None /\ x # Some(0)

\* Lines 485-487 and 501-503: the size the tokenizer has after the if.
applyFileSize(size, optSize) ==
    IF ~Truthy(size) /\ Truthy(optSize) THEN optSize ELSE size

SizeInit ==
    /\ entry \in {"parseStream", "parseBuffer"}
    /\ sizePc = "call"
    /\ acquiredSize = None
    /\ tokenizerSize = None
    /\ optFileSize \in OptSizes
    /\ mimeType \in MimeTypes
    /\ factoryArgs = <<>>

SizeIdle ==
    /\ entry = "none"
    /\ sizePc = "idle"
    /\ acquiredSize = None
    /\ tokenizerSize = None
    /\ optFileSize = None
    /\ mimeType = Undefined
    /\ factoryArgs = <<>>

\* Lines 484-489: fromStream fulfils with a tokenizer of size s, the size is
\* applied and ParserFactory.parse is called.
ParseStreamFulfilled ==
    /\ entry = "parseStream"
    /\ sizePc = "call"
    /\ \E s \in OptSizes :
        /\ acquiredSize' = s
        /\ tokenizerSize' = applyFileSize(s, optFileSize)
        /\ factoryArgs' = <<applyFileSize(s, optFileSize), mimeType, optFileSize>>
    /\ sizePc' = "ParserFactory.parse"
    /\ UNCHANGED <<entry, optFileSize, mimeType>>
    /\ UNCHANGED notSize

\* Line 484: fromStream rejects, no callback of parseStream runs.
ParseStreamRejected ==
    /\ entry = "parseStream"
    /\ sizePc = "call"
    /\ sizePc' = "rejected"
    /\ UNCHANGED <<entry, acquiredSize, tokenizerSize, optFileSize, mimeType, factoryArgs>>
    /\ UNCHANGED notSize

\* Lines 500-504: fromBuffer returns a tokenizer of size s, the size is applied
\* and ParserFactory.parse is called.
ParseBuffer ==
    /\ entry = "parseBuffer"
    /\ sizePc = "call"
    /\ \E s \in OptSizes :
        /\ acquiredSize' = s
        /\ tokenizerSize' = applyFileSize(s, optFileSize)
        /\ factoryArgs' = <<applyFileSize(s, optFileSize), mimeType, optFileSize>>
    /\ sizePc' = "ParserFactory.parse"
    /\ UNCHANGED <<entry, optFileSize, mimeType>>
    /\ UNCHANGED notSize

SizeNext ==
    \/ ParseStreamFulfilled
    \/ ParseStreamRejected
    \/ ParseBuffer

(***************************************************************************)
(* orderTags (src/src/index.ts:512-518)                                    *)
(***************************************************************************)
TagIds == {"TIT2", "COMM", "constructor"}
TagValues == {"v1", "v2"}
Tags == [id : TagIds, value : TagValues]

RECURSIVE SeqsUpTo(_, _)
\* The sequences over S of length at most n.
SeqsUpTo(S, n) ==
    IF n = 0 THEN {<<>>}
    ELSE LET shorter == SeqsUpTo(S, n - 1)
         IN  shorter \cup {Append(q, x) : q \in {r \in shorter : Len(r) = n - 1}, x \in S}

\* Property names every object literal inherits from Object.prototype.
ObjectPrototype == {"constructor", "toString", "valueOf", "hasOwnProperty"}

Array(items) == [kind |-> "array", items |-> items]
InheritedFunction == [kind |-> "function", items |-> <<>>]
UndefinedProperty == [kind |-> "undefined", items |-> <<>>]
EmptyObject == [k \in {} |-> UndefinedProperty]

\* obj[id] for an object created by {}: the own property, else the property
\* inherited from Object.prototype, else undefined.
Get(obj, id) ==
    IF id \in DOMAIN obj THEN obj[id]
    ELSE IF id \in ObjectPrototype THEN InheritedFunction
    ELSE UndefinedProperty

\* obj[id] = v
Put(obj, id, v) == [k \in DOMAIN obj \cup {id} |-> IF k = id THEN v ELSE obj[k]]

\* tags[tag.id] || []
Target(obj, id) == IF Get(obj, id).kind = "undefined" THEN Array(<<>>) ELSE Get(obj, id)

TagsInit ==
    /\ nativeTags \in SeqsUpTo(Tags, MaxTags)
    /\ tagIndex = 0
    /\ tags = EmptyObject
    /\ tagsPc = "loop"

TagsIdle ==
    /\ nativeTags = <<>>
    /\ tagIndex = 0
    /\ tags = EmptyObject
    /\ tagsPc = "idle"

\* Line 515, one iteration: the value is pushed on the array under tag.id.
OrderTagsPush ==
    /\ tagsPc = "loop"
    /\ tagIndex < Len(nativeTags)
    /\ LET tag == nativeTags[tagIndex + 1]
           target == Target(tags, tag.id)
       IN  /\ target.kind = "array"
           /\ tags' = Put(tags, tag.id, Array(Append(target.items, tag.value)))
    /\ tagIndex' = tagIndex + 1
    /\ UNCHANGED <<nativeTags, tagsPc>>
    /\ UNCHANGED notTags

\* Line 515, one iteration: tags[tag.id] is an inherited function, which is
\* assigned to tags[tag.id] and has no push: a TypeError leaves orderTags.
OrderTagsThrow ==
    /\ tagsPc = "loop"
    /\ tagIndex < Len(nativeTags)
    /\ LET tag == nativeTags[tagIndex + 1]
           target == Target(tags, tag.id)
       IN  /\ target.kind # "array"
           /\ tags' = Put(tags, tag.id, target)
    /\ tagsPc' = "threw"
    /\ UNCHANGED <<nativeTags, tagIndex>>
    /\ UNCHANGED notTags

\* Line 517: the loop is over, tags is returned.
OrderTagsReturn ==
    /\ tagsPc = "loop"
    /\ tagIndex = Len(nativeTags)
    /\ tagsPc' = "returned"
    /\ UNCHANGED <<nativeTags, tagIndex, tags>>
    /\ UNCHANGED notTags

TagsNext ==
    \/ OrderTagsPush
    \/ OrderTagsThrow
    \/ OrderTagsReturn

(***************************************************************************)
(* joinArtists (src/src/index.ts:520-525)                                  *)
(***************************************************************************)
Names == {"A", "B", "C", "D"}

RECURSIVE join(_, _)
\* Array.prototype.join on an array of strings.
join(arr, sep) ==
    IF Len(arr) = 0 THEN ""
    ELSE IF Len(arr) = 1 THEN arr[1]
    ELSE arr[1] \o sep \o join(Tail(arr), sep)

\* Array.prototype.slice(start, end), indices from 0, end excluded.
slice(arr, start, end) == SubSeq(arr, start + 1, end)

\* joinArtists with the test of line 521 off by one.
joinArtistsMoreThanThree(a) ==
    IF Len(a) > 3
    THEN join(slice(a, 0, Len(a) - 1), ", ") \o " & " \o a[Len(a)]
    ELSE join(a, " & ")

joinArtists(a) ==
    IF Len(a) > 2
    THEN join(slice(a, 0, Len(a) - 1), ", ") \o " & " \o a[Len(a)]
    ELSE join(a, " & ")

JoinInit ==
    /\ artists \in SeqsUpTo(Names, MaxArtists)
    /\ joinPc = "call"
    /\ joined = ""

JoinIdle ==
    /\ artists = <<>>
    /\ joinPc = "idle"
    /\ joined = ""

\* Lines 520-525: the call returns the joined string.
JoinArtists ==
    /\ joinPc = "call"
    /\ joined' = joinArtists(artists)
    /\ joinPc' = "returned"
    /\ UNCHANGED artists
    /\ UNCHANGED notJoin

JoinNext == JoinArtists

(***************************************************************************)
(* ratingToStars (src/src/index.ts:532-534)                                *)
(***************************************************************************)
\* A rating is undefined, {}, or the rational num/den, {<<num, den>>}.
Ratings == {None} \cup {Some(<<n, d>>) : n \in (-MaxNum)..MaxNum, d \in 1..MaxDen}
Num(r) == (CHOOSE q \in r : TRUE)[1]
Den(r) == (CHOOSE q \in r : TRUE)[2]

\* Rounding to the nearest integer with a tie going to -Infinity.
MathRoundHalfDown(num, den) == -((den - 2 * num) \div (2 * den))

\* Math.round of num/den, den > 0: the nearest integer, a tie going to +Infinity.
MathRound(num, den) == (2 * num + den) \div (2 * den)

ratingToStars(r) ==
    IF r = None THEN 0 ELSE 1 + MathRound(Num(r) * 4, Den(r))

StarsInit ==
    /\ rating \in Ratings
    /\ starsPc = "call"
    /\ stars = 0

StarsIdle ==
    /\ rating = None
    /\ starsPc = "idle"
    /\ stars = 0

\* Lines 532-534: the call returns the number of stars.
RatingToStars ==
    /\ starsPc = "call"
    /\ stars' = ratingToStars(rating)
    /\ starsPc' = "returned"
    /\ UNCHANGED rating
    /\ UNCHANGED notStars

StarsNext == RatingToStars

(***************************************************************************)
(* Specifications, one per entry point or utility.                         *)
(***************************************************************************)
InitFile == FileInit /\ SizeIdle /\ TagsIdle /\ JoinIdle /\ StarsIdle
SpecFile == InitFile /\ [][FileNext]_vars

InitSize == FileIdle /\ SizeInit /\ TagsIdle /\ JoinIdle /\ StarsIdle
SpecSize == InitSize /\ [][SizeNext]_vars

InitTags == FileIdle /\ SizeIdle /\ TagsInit /\ JoinIdle /\ StarsIdle
SpecTags == InitTags /\ [][TagsNext]_vars

InitJoin == FileIdle /\ SizeIdle /\ TagsIdle /\ JoinInit /\ StarsIdle
SpecJoin == InitJoin /\ [][JoinNext]_vars

InitStars == FileIdle /\ SizeIdle /\ TagsIdle /\ JoinIdle /\ StarsInit
SpecStars == InitStars /\ [][StarsNext]_vars

(***************************************************************************)
(* Claims about parseFile, checked under SpecFile.                         *)
(***************************************************************************)
Settled == pc = "done"
Acquired == fileTokenizer # "none"
Count(seq, x) == Cardinality({i \in 1..Len(seq) : seq[i] = x})

\* Whether sequence part occurs in sequence whole as a contiguous run.
Contains(whole, part) ==
    \E i \in 0..(Len(whole) - Len(part)) : SubSeq(whole, i + 1, i + Len(part)) = part

\* C1: in every call of parseFile that acquired the tokenizer, close() has
\* been invoked exactly once by the time the returned promise settles,
\* whatever the outcomes of the later steps.
C1_CloseExactlyOnce ==
    (Settled /\ Acquired) => closeCalls = 1

\* C2: when parse() rejects with E, close() is invoked exactly once, the
\* returned promise does not settle before that close() has settled, the caller
\* observes exactly E when close() fulfils and the error of close() when
\* close() rejects.
C2_ParseRejection ==
    parseState = "rejected" =>
        /\ closeCalls = 1
        /\ Count(log, "close") = 1
        /\ outcome.state # "pending" => Len(closeOutcomes) = 1
        /\ Settled =>
            /\ outcome.state = "rejected"
            /\ closeOutcomes[1].state = "fulfilled" => outcome.reason = parseError
            /\ closeOutcomes[1].state = "rejected" => outcome.reason = closeOutcomes[1].reason

\* A call where parse() rejected with E2, close() fulfilled and the caller got E2.
C2_Witness ==
    /\ Settled
    /\ parseState = "rejected"
    /\ parseError = Error(<<"E2">>)
    /\ closeOutcomes = <<Fulfilled("")>>
    /\ outcome = Rejected(Error(<<"E2">>))

\* C3: when the extension of filePath resolves to no decoder, no tokenizer is
\* acquired at any point of the call, so none is open when the failure reaches
\* the caller.
C3_NoTokenizerWork ==
    parserId = Undefined =>
        /\ ~Acquired
        /\ Settled => fileTokenizer # "open"

\* C4: when the extension of filePath resolves to no decoder, the returned
\* promise rejects with the unsupported-format error, whose message contains
\* the extension, and no decoder is loaded, no collector is created and neither
\* init nor parse() is invoked.
C4_UnsupportedFormat ==
    (parserId = Undefined /\ Settled) =>
        /\ outcome.state = "rejected"
        /\ Len(outcome.reason.message) > 0
        /\ Head(outcome.reason.message) = UnsupportedPrefix
        /\ Contains(Tail(outcome.reason.message), extname(filePath))
        /\ Count(log, "loadParser") = 0
        /\ Count(log, "new MetadataCollector") = 0
        /\ metadata = 0
        /\ initArgs = <<>>
        /\ parseState = "idle"

\* C5: on every successful call the steps occur once each and in this order:
\* collector constructed, init, parse() called and fulfilled, close() called and
\* fulfilled, toCommonMetadata() on that collector; the caller receives what
\* toCommonMetadata() returned; toCommonMetadata() is never called when parse()
\* rejected.
C5_SuccessOrder ==
    /\ outcome.state = "fulfilled" =>
        /\ log = <<"fromFile", "fromFile fulfilled", "loadParser", "loadParser fulfilled",
                   "new MetadataCollector", "init", "parse", "parse fulfilled",
                   "close", "close fulfilled", "toCommonMetadata">>
        /\ metadata = collectorsCreated
        /\ metadata > 0
        /\ initArgs = <<metadata, "open">>
        /\ parseState = "fulfilled"
        /\ closeCalls = 1
        /\ closeOutcomes = <<Fulfilled("")>>
        /\ commonOf = <<metadata>>
        /\ outcome.value = commonValue
    /\ parseState = "rejected" => (commonOf = <<>> /\ Count(log, "toCommonMetadata") = 0)

\* A second call that succeeded on its own collector.
C5_Witness ==
    /\ callNo = 2
    /\ outcome = Fulfilled("common2")
    /\ metadata = 2
    /\ commonOf = <<2>>

\* C10: close() is never invoked before parse() has settled; the returned
\* promise fulfils only if parse() fulfilled and a close() has already
\* fulfilled; every other combination of outcomes ends in rejection.
C10_CloseAfterParse ==
    /\ closeCalls > 0 => parseState \in {"fulfilled", "rejected"}
    /\ \A i \in 1..Len(log) :
        log[i] = "close" => \E j \in 1..(i - 1) : log[j] \in {"parse fulfilled", "parse rejected"}
    /\ outcome.state = "fulfilled" =>
        /\ parseState = "fulfilled"
        /\ \E i \in 1..Len(closeOutcomes) : closeOutcomes[i].state = "fulfilled"
    /\ Settled => outcome.state \in {"fulfilled", "rejected"}
    /\ (Settled /\ ~(parseState = "fulfilled" /\ Len(closeOutcomes) > 0
                     /\ closeOutcomes[1].state = "fulfilled"))
        => outcome.state = "rejected"

\* A call where parse() fulfilled, the first close() rejected and the call
\* ended in rejection.
C10_Witness ==
    /\ Settled
    /\ parseState = "fulfilled"
    /\ Len(closeOutcomes) = 2
    /\ closeOutcomes[1].state = "rejected"
    /\ outcome.state = "rejected"

(***************************************************************************)
(* Claim about parseStream and parseBuffer, checked under SpecSize.        *)
(***************************************************************************)
\* C6: when ParserFactory.parse starts, the size of the tokenizer is
\* options.fileSize if the tokenizer had no known size and options.fileSize is
\* given, and the size the tokenizer had in every other case.
C6_FileSizeApplied ==
    sizePc = "ParserFactory.parse" =>
        LET expected == IF acquiredSize = None /\ optFileSize # None
                        THEN optFileSize ELSE acquiredSize
        IN  tokenizerSize = expected /\ factoryArgs[1] = expected

(***************************************************************************)
(* Claim about orderTags, checked under SpecTags.                          *)
(***************************************************************************)
RECURSIVE ValuesOf(_, _)
\* The values of the tags of T whose id is id, in the order of T.
ValuesOf(T, id) ==
    IF T = <<>> THEN <<>>
    ELSE (IF Head(T).id = id THEN <<Head(T).value>> ELSE <<>>) \o ValuesOf(Tail(T), id)

\* C7: for every sequence of tags orderTags returns a mapping whose keys are
\* the ids of the sequence, each with the values of its tags in order, none
\* dropped or repeated.
C7_GroupedById ==
    /\ tagsPc # "threw"
    /\ tagsPc = "returned" =>
        /\ DOMAIN tags = {nativeTags[i].id : i \in 1..Len(nativeTags)}
        /\ \A id \in DOMAIN tags : tags[id] = Array(ValuesOf(nativeTags, id))

(***************************************************************************)
(* Claim about joinArtists, checked under SpecJoin.                        *)
(***************************************************************************)
\* C8: joinArtists returns "" for no name, the name for one, the two names
\* joined by " & " for two, and for three or more the names but the last joined
\* by ", ", then " & ", then the last.
C8_JoinArtists ==
    joinPc = "returned" =>
        LET n == Len(artists)
        IN  /\ n = 0 => joined = ""
            /\ n = 1 => joined = artists[1]
            /\ n = 2 => joined = artists[1] \o " & " \o artists[2]
            /\ n = 3 => joined = artists[1] \o ", " \o artists[2] \o " & " \o artists[3]
            /\ n > 3 => joined = artists[1] \o ", " \o joinArtists(Tail(artists))
            /\ artists = <<"A", "B">> => joined = "A & B"
            /\ artists = <<"A", "B", "C">> => joined = "A, B & C"
            /\ artists = <<"A", "B", "C", "D">> => joined = "A, B, C & D"

\* The call on four names has returned.
C8_Witness ==
    /\ joinPc = "returned"
    /\ artists = <<"D", "C", "B", "A">>
    /\ joined = "D, C, B & A"

(***************************************************************************)
(* Claim about ratingToStars, checked under SpecStars.                     *)
(***************************************************************************)
\* C9: ratingToStars returns 0 for an undefined rating and otherwise 1 + k,
\* k the integer nearest to 4 * rating with a tie k - 1/2 going up to k; that
\* is in 1..5 for a rating in [0, 1], 1 for 0, 3 for 1/2 and 5 for 1; a rating
\* outside [0, 1] is not clamped.
C9_RatingToStars ==
    starsPc = "returned" =>
        /\ rating = None => stars = 0
        /\ rating # None =>
            LET num == Num(rating)
                den == Den(rating)
                k == stars - 1
            IN  /\ (2 * k - 1) * den <= 8 * num
                /\ 8 * num < (2 * k + 1) * den
                /\ (0 <= num /\ num <= den) => stars \in 1..5
                /\ num = 0 => stars = 1
                /\ 2 * num = den => stars = 3
                /\ num = den => stars = 5
                /\ num > den => stars >= 5
                /\ num < 0 => stars <= 1
                /\ num = 2 * den => stars = 9

\* The call on the rating 3/8, where 4 * rating is the tie 1 + 1/2, has returned 3.
C9_Witness ==
    /\ starsPc = "returned"
    /\ rating = Some(<<3, 8>>)
    /\ stars = 3

====
